---- MODULE Spec2Model ----
(***************************************************************************)
(* FlowCheck browser client: the job-progress tracking of the two         *)
(* ProcessingPage components.                                              *)
(*                                                                         *)
(*   - the polling ProcessingPage (src/unnamed/part_001): a useEffect that *)
(*     starts an interval timer and an immediate pollProgress(); every     *)
(*     pollProgress() invocation is an async function with two await       *)
(*     points (the status query and, on completion, the result fetch);     *)
(*   - the timer-driven ProcessingPage (src/src/pages/ProcessingPage.tsx): *)
(*     an interval whose callback advances currentStep by one.             *)
(*                                                                         *)
(* The runtime is single threaded: every action below is one task of the   *)
(* event loop (an effect, a timer callback, the continuation of an await,  *)
(* a click handler), run to completion.  fetch() and the following         *)
(* res.json() are two awaits with no read or write of program state        *)
(* between them, so the continuation of a response is one action.          *)
(***************************************************************************)
EXTENDS Integers, Sequences, FiniteSets, TLC

\* ------------------------------------------------------------------ bounds

\* Largest number of pollProgress() invocations that are in flight together.
MaxInFlight == 3

\* ------------------------------------------------------------- the program

VARIABLES
    variant,          \* which ProcessingPage component is on screen
    sessionId,        \* location.state.session_id ("" when absent)
    pagePc,           \* "rendered" | "mounted" | "redirected" | "unmounted"
    currentStep,      \* useState<number>(0)
    finalResult,      \* useState<any>(null)
    processedSteps,   \* useState<ProcessingStep[]>(steps)
    isMounted,        \* closure flag of the effect
    pollInterval,     \* TRUE while the interval of the effect is scheduled
    polls,            \* pollProgress() invocations in flight, in call order;
                      \* resp is << >> or <<current_step>> once answered
    backendStep,      \* current_step of the job on the backend
    route,            \* the route the router shows
    routeState,       \* the state handed over by navigate(..., {state})
    resultFetches,    \* history: number of /results requests sent
    completionSeen,   \* history: a status response with step >= N was applied
    stopSeen,         \* history: completion, an error or teardown was processed
    lateResponse,     \* history: a response was resumed after teardown
    failureSeen,      \* history: the catch block ran while the page was mounted
    tCurrentStep,     \* timer-driven page: useState(0)
    tProcessedSteps,  \* timer-driven page: useState<ProcessingStep[]>(steps)
    tInterval,        \* timer-driven page: TRUE while its interval is scheduled
    tTicks,           \* history: interval callbacks run on the timer-driven page
    hPc,              \* recomputation on its own: "input" | "once" | "twice"
    hStep,            \* recomputation on its own: the current_step applied
    hPrevA,           \* recomputation on its own: a prior stage sequence
    hPrevB,           \* recomputation on its own: another prior stage sequence
    hOutA,            \* recomputation on its own: the result from hPrevA
    hOutB,            \* recomputation on its own: the result from hPrevB
    rState,           \* results page: location.state
    rPc,              \* results page: "idle" | "rendered" | "redirected" | "crashed" | "left"
    rView,            \* results page: the values its render computed
    selectedFile,     \* entry page: useState<File | null>(null)
    loanAmount,       \* entry page: useState<string>(''), as its characters
    isDragOver,       \* upload area: useState(false)
    lastEvent,        \* history: the event handled last on the entry page,
                      \* with the first file of a drop or a choice
    lastResponse,     \* history: the response the last resumed submission got
    submits,          \* entry page: handleStartAnalysis() invocations in flight
    navState          \* entry page: the state handed to navigate('/processing')

pollVars  == <<sessionId, currentStep, finalResult, processedSteps, isMounted,
               pollInterval, polls, backendStep, resultFetches, completionSeen,
               stopSeen, lateResponse, failureSeen>>
timerVars == <<tCurrentStep, tProcessedSteps, tInterval, tTicks>>
hVars     == <<hPc, hStep, hPrevA, hPrevB, hOutA, hOutB>>
rVars     == <<rState, rPc, rView>>
eVars     == <<selectedFile, loanAmount, isDragOver, lastEvent, lastResponse,
               submits, navState>>
vars      == <<variant, pagePc, route, routeState, pollVars, timerVars, hVars,
              rVars, eVars>>

NULL   == "null"
NoResp == << >>

\* The payloads the /results endpoint may answer with.
Payloads == {"R1", "R2"}

\* const steps: ProcessingStep[] of the polling page.
steps ==
    << [title |-> "Understanding Format",
        description |-> "Inferring layout structure (tabular vs freeform)",
        status |-> "pending"],
       [title |-> "Transaction Extraction",
        description |-> "Pulling financial activity with LlamaParse",
        status |-> "pending"],
       [title |-> "Currency Mapping",
        description |-> "Recognizing symbols, formats, and normalization",
        status |-> "pending"],
       [title |-> "Data Integrity Checks",
        description |-> "Identifying gaps, misalignments, and duplications",
        status |-> "pending"],
       [title |-> "Financial Analysis",
        description |-> "Detecting trends, volatility, and balance health",
        status |-> "pending"],
       [title |-> "Insight Generation",
        description |-> "Mapping findings to risk and reliability metrics",
        status |-> "pending"],
       [title |-> "Report Ready",
        description |-> "Summary generated - ready for review",
        status |-> "pending"] >>

\* const steps: ProcessingStep[] of the timer-driven page.
stepsTimer ==
    [i \in 1..Len(steps) |->
        IF i = 5 THEN [steps[i] EXCEPT !.title = "Financial Signal Analysis"]
                 ELSE steps[i]]

\* steps.length
N == Len(steps)

RemoveAt(s, i) == SubSeq(s, 1, i - 1) \o SubSeq(s, i + 1, Len(s))

\* ------------------------------------------ polling page: pure computations

\* Mutant of StatusOf: the 'pending' branch is lost.
StatusOfNoPending(idx, step) ==
    IF idx < step THEN "completed" ELSE "processing"

\* Mutant of StatusOf: the comparison is off by one.
StatusOfOffByOne(idx, step) ==
    IF idx <= step THEN "completed"
    ELSE IF idx = step + 1 THEN "processing"
    ELSE "pending"

\* The status a stage gets from a status response; idx is the 0-based index
\* of prev.map((stepObj, idx) => ...).
StatusOf(idx, step) ==
    IF idx < step THEN "completed"
    ELSE IF idx = step THEN "processing"
    ELSE "pending"

\* Mutant of Recompute: a stage that was 'completed' stays 'completed'.
RecomputeSticky(prev, step) ==
    [i \in 1..Len(prev) |->
        [prev[i] EXCEPT !.status =
            IF prev[i].status = "completed" THEN "completed"
            ELSE StatusOf(i - 1, step)]]

\* Mutant of Recompute: the spread of stepObj is lost, so the description of a
\* stage is not carried over.
RecomputeDropsDescription(prev, step) ==
    [i \in 1..Len(prev) |->
        [title |-> prev[i].title, description |-> "",
         status |-> StatusOf(i - 1, step)]]

\* prev => prev.map((stepObj, idx) => ({...stepObj, status: ...}))
Recompute(prev, step) ==
    [i \in 1..Len(prev) |-> [prev[i] EXCEPT !.status = StatusOf(i - 1, step)]]

\* Mutant of IsFinished: completion is declared one step early.
IsFinishedEarly(step) == step >= Len(processedSteps) - 1

\* Mutant of IsFinished: the comparison is strict.
IsFinishedStrict(step) == step > Len(processedSteps)

\* if (step >= processedSteps.length)
IsFinished(step) == step >= Len(processedSteps)

\* const isComplete = currentStep >= steps.length
isComplete == currentStep >= Len(steps)

\* if (!isMounted) return;   after the status response
MountedAfterProgress == isMounted

\* Mutant of MountedAfterResults: the liveness flag is not consulted.
ResultsIgnoreMounted == TRUE

\* if (!isMounted) return;   after the result response
MountedAfterResults == isMounted

\* if (!isMounted) return;   in the catch block
MountedInCatch == isMounted

\* A call of pollProgress(): runs up to the first await, the status query.
CallPollProgress(ps) == Append(ps, [pc |-> "progress", resp |-> NoResp])

\* ------------------------------------------------- polling page: the state

\* The state variables of the processing pages at their first render.
ProcessingIdle ==
    /\ pagePc = "rendered"
    /\ currentStep = 0
    /\ finalResult = NULL
    /\ processedSteps = steps
    /\ isMounted = FALSE
    /\ pollInterval = FALSE
    /\ polls = << >>
    /\ backendStep = 0
    /\ routeState = NULL
    /\ resultFetches = 0
    /\ completionSeen = FALSE
    /\ stopSeen = FALSE
    /\ lateResponse = FALSE
    /\ failureSeen = FALSE
    /\ tCurrentStep = 0
    /\ tProcessedSteps = stepsTimer
    /\ tInterval = FALSE
    /\ tTicks = 0

\* The state of either processing page after its first render, before its
\* effect runs, on the route '/processing'.
PageInit ==
    /\ ProcessingIdle
    /\ route = "/processing"

HarnessIdle ==
    /\ hPc = "input"
    /\ hStep = 0
    /\ hPrevA = steps
    /\ hPrevB = steps
    /\ hOutA = steps
    /\ hOutB = steps

\* location.state when the router holds no state (null).
NullState == [isNull |-> TRUE]

\* Nothing computed by the results page yet.
NoView == << >>

\* The results page is not on screen.
ResultsIdle ==
    /\ rState = NullState
    /\ rPc = "idle"
    /\ rView = NoView

\* No file: the null of useState<File | null>(null).
NoFile == [none |-> TRUE]

\* No navigation state handed over yet.
NoNav == << >>

\* The entry page and its upload area before any event.
EntryIdle ==
    /\ selectedFile = NoFile
    /\ loanAmount = << >>
    /\ isDragOver = FALSE
    /\ lastEvent = [kind |-> "none"]
    /\ lastResponse = [kind |-> "none"]
    /\ submits = << >>
    /\ navState = NoNav

Init ==
    /\ variant \in {"polling", "timer"}
    /\ sessionId \in (IF variant = "polling" THEN {"", "s1"} ELSE {""})
    /\ PageInit
    /\ HarnessIdle
    /\ ResultsIdle
    /\ EntryIdle

\* ----------------------------------------------- polling page: the actions

\* Mutant of MountNoSession: the guard navigates but does not return, so the
\* effect goes on to start the interval and the first poll.
MountNoSessionFallsThrough ==
    /\ variant = "polling" /\ pagePc = "rendered"
    /\ sessionId = ""
    /\ pagePc' = "redirected"
    /\ route' = "/"
    /\ routeState' = NULL
    /\ isMounted' = TRUE
    /\ pollInterval' = TRUE
    /\ polls' = CallPollProgress(polls)
    /\ UNCHANGED <<variant, eVars, sessionId, currentStep, finalResult, processedSteps,
                   backendStep, resultFetches, completionSeen, failureSeen,
                   stopSeen, lateResponse, timerVars, hVars, rVars>>

\* useEffect body with no session_id: navigate('/') and return.
MountNoSession ==
    /\ variant = "polling" /\ pagePc = "rendered"
    /\ sessionId = ""
    /\ pagePc' = "redirected"
    /\ route' = "/"
    /\ routeState' = NULL
    /\ UNCHANGED <<variant, eVars, pollVars, timerVars, hVars, rVars>>

\* Mutant of Mount: the effect sets the interval but does not call
\* pollProgress() itself.
MountNoImmediatePoll ==
    /\ variant = "polling" /\ pagePc = "rendered"
    /\ sessionId # ""
    /\ pagePc' = "mounted"
    /\ isMounted' = TRUE
    /\ pollInterval' = TRUE
    /\ UNCHANGED <<variant, eVars, route, routeState, sessionId, currentStep,
                   finalResult, processedSteps, polls, backendStep,
                   resultFetches, completionSeen, failureSeen, stopSeen,
                   lateResponse, timerVars, hVars, rVars>>

\* useEffect body with a session_id: isMounted = true, setInterval(...),
\* pollProgress().
Mount ==
    /\ variant = "polling" /\ pagePc = "rendered"
    /\ sessionId # ""
    /\ pagePc' = "mounted"
    /\ isMounted' = TRUE
    /\ pollInterval' = TRUE
    /\ polls' = CallPollProgress(polls)
    /\ UNCHANGED <<variant, eVars, route, routeState, sessionId, currentStep,
                   finalResult, processedSteps, backendStep, resultFetches,
                   completionSeen, failureSeen, stopSeen, lateResponse, timerVars, hVars, rVars>>

\* The interval fires: window.setInterval(pollProgress, 1000).
Tick ==
    /\ variant = "polling"
    /\ pollInterval
    /\ Len(polls) < MaxInFlight
    /\ polls' = CallPollProgress(polls)
    /\ UNCHANGED <<variant, eVars, pagePc, route, routeState, sessionId, currentStep,
                   finalResult, processedSteps, isMounted, pollInterval,
                   backendStep, resultFetches, completionSeen, failureSeen, stopSeen,
                   lateResponse, timerVars, hVars, rVars>>

\* The job moves on to its next stage on the backend.
BackendAdvance ==
    /\ variant = "polling"
    /\ backendStep < N
    /\ backendStep' = backendStep + 1
    /\ UNCHANGED <<variant, eVars, pagePc, route, routeState, sessionId, currentStep,
                   finalResult, processedSteps, isMounted, pollInterval, polls,
                   resultFetches, completionSeen, failureSeen, stopSeen, lateResponse,
                   timerVars, hVars, rVars>>

\* The backend answers the status query of invocation i with its current step.
ServerAnswer(i) ==
    /\ polls[i].pc = "progress"
    /\ polls[i].resp = NoResp
    /\ polls' = [polls EXCEPT ![i].resp = <<backendStep>>]
    /\ UNCHANGED <<variant, eVars, pagePc, route, routeState, sessionId, currentStep,
                   finalResult, processedSteps, isMounted, pollInterval,
                   backendStep, resultFetches, completionSeen, failureSeen, stopSeen,
                   lateResponse, timerVars, hVars, rVars>>

\* Invocation i resumes with an ok status response.
\* setCurrentStep and setProcessedSteps are queued in the same task and
\* rendered together; the result fetch is sent before the task ends.
HandleProgressOk(i) ==
    /\ polls[i].pc = "progress"
    /\ polls[i].resp # NoResp
    /\ LET step == polls[i].resp[1] IN
       IF ~MountedAfterProgress
       THEN /\ polls' = RemoveAt(polls, i)
            /\ lateResponse' = TRUE
            /\ UNCHANGED <<currentStep, processedSteps, pollInterval,
                           resultFetches, completionSeen, stopSeen>>
       ELSE /\ currentStep' = step
            /\ processedSteps' = Recompute(processedSteps, step)
            /\ completionSeen' = (completionSeen \/ step >= N)
            /\ lateResponse' = (lateResponse \/ ~isMounted)
            /\ IF IsFinished(step)
               THEN /\ pollInterval' = FALSE
                    /\ stopSeen' = TRUE
                    /\ polls' = [polls EXCEPT ![i] =
                                    [pc |-> "results", resp |-> NoResp]]
                    /\ resultFetches' = resultFetches + 1
               ELSE /\ polls' = RemoveAt(polls, i)
                    /\ UNCHANGED <<pollInterval, stopSeen, resultFetches>>
    /\ UNCHANGED <<variant, eVars, pagePc, route, routeState, sessionId, finalResult,
                   isMounted, backendStep, failureSeen, timerVars, hVars, rVars>>

\* Mutant of CatchError: the catch block does not clear the interval.
CatchErrorKeepsTimer(i) ==
    /\ polls' = RemoveAt(polls, i)
    /\ IF ~MountedInCatch
       THEN /\ lateResponse' = TRUE
            /\ UNCHANGED failureSeen
            /\ UNCHANGED stopSeen
       ELSE /\ stopSeen' = TRUE
            /\ lateResponse' = (lateResponse \/ ~isMounted)
            /\ failureSeen' = TRUE
    /\ UNCHANGED <<variant, eVars, pagePc, route, routeState, sessionId, currentStep,
                   finalResult, processedSteps, isMounted, pollInterval,
                   backendStep, resultFetches, completionSeen, timerVars, hVars, rVars>>

\* The catch block of pollProgress.
CatchError(i) ==
    /\ polls' = RemoveAt(polls, i)
    /\ IF ~MountedInCatch
       THEN /\ lateResponse' = TRUE
            /\ UNCHANGED failureSeen
            /\ UNCHANGED <<pollInterval, stopSeen>>
       ELSE /\ pollInterval' = FALSE
            /\ stopSeen' = TRUE
            /\ lateResponse' = (lateResponse \/ ~isMounted)
            /\ failureSeen' = TRUE
    /\ UNCHANGED <<variant, eVars, pagePc, route, routeState, sessionId, currentStep,
                   finalResult, processedSteps, isMounted, backendStep,
                   resultFetches, completionSeen, timerVars, hVars, rVars>>

\* Invocation i resumes with a failed status query (fetch rejects, the
\* response is not ok, or json() rejects).
HandleProgressErr(i) ==
    /\ polls[i].pc = "progress"
    /\ CatchError(i)

\* Invocation i resumes with an ok result response carrying payload r.
HandleResultsOk(i, r) ==
    /\ polls[i].pc = "results"
    /\ polls' = RemoveAt(polls, i)
    /\ IF ~MountedAfterResults
       THEN /\ lateResponse' = TRUE
            /\ UNCHANGED finalResult
       ELSE /\ finalResult' = r
            /\ lateResponse' = (lateResponse \/ ~isMounted)
    /\ UNCHANGED <<variant, eVars, pagePc, route, routeState, sessionId, currentStep,
                   processedSteps, isMounted, pollInterval, backendStep,
                   resultFetches, completionSeen, failureSeen, stopSeen, timerVars, hVars, rVars>>

\* Invocation i resumes with a failed result fetch.
HandleResultsErr(i) ==
    /\ polls[i].pc = "results"
    /\ CatchError(i)

\* The cleanup of the effect: isMounted = false; clearInterval(pollInterval).
Cleanup ==
    /\ isMounted' = FALSE
    /\ pollInterval' = FALSE
    /\ stopSeen' = TRUE

\* The page is removed from the screen (the user leaves the route).
Unmount ==
    /\ variant = "polling" /\ pagePc = "mounted"
    /\ pagePc' = "unmounted"
    /\ route' = "away"
    /\ routeState' = NULL
    /\ Cleanup
    /\ UNCHANGED <<variant, eVars, sessionId, currentStep, finalResult, processedSteps,
                   polls, backendStep, resultFetches, completionSeen, failureSeen,
                   lateResponse, timerVars, hVars, rVars>>

\* The header button: onClick={() => navigate('/')}.
ClickHome ==
    /\ variant = "polling" /\ pagePc = "mounted"
    /\ pagePc' = "unmounted"
    /\ route' = "/"
    /\ routeState' = NULL
    /\ Cleanup
    /\ UNCHANGED <<variant, eVars, sessionId, currentStep, finalResult, processedSteps,
                   polls, backendStep, resultFetches, completionSeen, failureSeen,
                   lateResponse, timerVars, hVars, rVars>>

\* Mutant of ClickViewReport: the click navigates whether or not the result
\* has arrived.
ClickViewReportUnguarded ==
    /\ variant = "polling" /\ pagePc = "mounted"
    /\ isComplete
    /\ pagePc' = "unmounted"
    /\ route' = "/results"
    /\ routeState' = finalResult
    /\ Cleanup
    /\ UNCHANGED <<variant, eVars, sessionId, currentStep, finalResult, processedSteps,
                   polls, backendStep, resultFetches, completionSeen, failureSeen,
                   lateResponse, timerVars, hVars, rVars>>

\* 'View Financial Report': disabled={!isComplete},
\* onClick={() => finalResult && navigate('/results', {state: finalResult})}.
ClickViewReport ==
    /\ variant = "polling" /\ pagePc = "mounted"
    /\ isComplete
    /\ IF finalResult # NULL
       THEN /\ pagePc' = "unmounted"
            /\ route' = "/results"
            /\ routeState' = finalResult
            /\ Cleanup
       ELSE UNCHANGED <<pagePc, route, routeState, isMounted, pollInterval,
                        stopSeen>>
    /\ UNCHANGED <<variant, eVars, sessionId, currentStep, finalResult, processedSteps,
                   polls, backendStep, resultFetches, completionSeen, failureSeen,
                   lateResponse, timerVars, hVars, rVars>>

PollingNext ==
    \/ MountNoSession
    \/ Mount
    \/ Tick
    \/ BackendAdvance
    \/ \E i \in 1..Len(polls) : ServerAnswer(i)
    \/ \E i \in 1..Len(polls) : HandleProgressOk(i)
    \/ \E i \in 1..Len(polls) : HandleProgressErr(i)
    \/ \E i \in 1..Len(polls), r \in Payloads : HandleResultsOk(i, r)
    \/ \E i \in 1..Len(polls) : HandleResultsErr(i)
    \/ Unmount
    \/ ClickHome
    \/ ClickViewReport

\* --------------------------------------------------- the timer-driven page

\* status: index < nextStep - 1 ? 'completed' :
\*         index === nextStep - 1 ? 'processing' : 'pending'
TimerStatusOf(index, nextStep) ==
    IF index < nextStep - 1 THEN "completed"
    ELSE IF index = nextStep - 1 THEN "processing"
    ELSE "pending"

\* prevSteps.map((step, index) => ({...step, status: ...}))
TimerRecompute(prevSteps, nextStep) ==
    [i \in 1..Len(prevSteps) |->
        [prevSteps[i] EXCEPT !.status = TimerStatusOf(i - 1, nextStep)]]

\* const isComplete = currentStep >= steps.length   (timer-driven page)
tIsComplete == tCurrentStep >= Len(stepsTimer)

\* useEffect(() => { const interval = setInterval(..., 2000); ... }, [])
TimerMount ==
    /\ variant = "timer" /\ pagePc = "rendered"
    /\ pagePc' = "mounted"
    /\ tInterval' = TRUE
    /\ UNCHANGED <<variant, eVars, route, routeState, pollVars, hVars, rVars, tTicks, tCurrentStep,
                   tProcessedSteps>>

\* Mutant of TimerTick: the callback lacks the nextStep <= steps.length test.
TimerTickOvershoots ==
    /\ variant = "timer"
    /\ tInterval
    /\ tTicks < Len(stepsTimer) + 1
    /\ tTicks' = tTicks + 1
    /\ tProcessedSteps' = TimerRecompute(tProcessedSteps, tCurrentStep + 1)
    /\ tCurrentStep' = tCurrentStep + 1
    /\ UNCHANGED tInterval
    /\ UNCHANGED <<variant, eVars, pagePc, route, routeState, pollVars, hVars, rVars>>

\* The interval callback: setCurrentStep(prev => ...).
TimerTick ==
    /\ variant = "timer"
    /\ tInterval
    /\ tTicks' = tTicks + 1
    /\ LET nextStep == tCurrentStep + 1 IN
       IF nextStep <= Len(stepsTimer)
       THEN /\ tProcessedSteps' = TimerRecompute(tProcessedSteps, nextStep)
            /\ tCurrentStep' = nextStep
            /\ UNCHANGED tInterval
       ELSE /\ tInterval' = FALSE
            /\ UNCHANGED <<tCurrentStep, tProcessedSteps>>
    /\ UNCHANGED <<variant, eVars, pagePc, route, routeState, pollVars, hVars, rVars>>

\* return () => clearInterval(interval), run when the page leaves the screen.
TimerUnmount ==
    /\ variant = "timer" /\ pagePc = "mounted"
    /\ pagePc' = "unmounted"
    /\ route' = "away"
    /\ tInterval' = FALSE
    /\ UNCHANGED <<variant, eVars, routeState, pollVars, hVars, rVars, tCurrentStep,
                   tProcessedSteps, tTicks>>

\* The header button of the timer-driven page: navigate('/').
TimerClickHome ==
    /\ variant = "timer" /\ pagePc = "mounted"
    /\ pagePc' = "unmounted"
    /\ route' = "/"
    /\ tInterval' = FALSE
    /\ UNCHANGED <<variant, eVars, routeState, pollVars, hVars, rVars, tCurrentStep,
                   tProcessedSteps, tTicks>>

\* 'View Financial Report' of the timer-driven page: disabled={!isComplete},
\* onClick={() => navigate('/results')}.
TimerClickViewReport ==
    /\ variant = "timer" /\ pagePc = "mounted"
    /\ tIsComplete
    /\ pagePc' = "unmounted"
    /\ route' = "/results"
    /\ tInterval' = FALSE
    /\ UNCHANGED <<variant, eVars, routeState, pollVars, hVars, rVars, tCurrentStep,
                   tProcessedSteps, tTicks>>

TimerNext ==
    \/ TimerMount
    \/ TimerTick
    \/ TimerUnmount
    \/ TimerClickHome
    \/ TimerClickViewReport

Next == PollingNext \/ TimerNext

Spec == Init /\ [][Next]_vars

\* ------------------------------------- the run in which nothing goes wrong

\* The page is never taken off the screen and every request is answered with
\* success.  The interval keeps firing while it is scheduled, the backend
\* keeps working on the job, and every response is eventually delivered.
InitLive == Init /\ variant = "polling"

NextLive ==
    \/ MountNoSession
    \/ Mount
    \/ Tick
    \/ BackendAdvance
    \/ \E i \in 1..Len(polls) : ServerAnswer(i)
    \/ \E i \in 1..Len(polls) : HandleProgressOk(i)
    \/ \E i \in 1..Len(polls), r \in Payloads : HandleResultsOk(i, r)

Fairness ==
    /\ WF_vars(Mount)
    /\ WF_vars(Tick)
    /\ WF_vars(BackendAdvance)
    /\ WF_vars(\E i \in 1..Len(polls) : ServerAnswer(i))
    /\ WF_vars(\E i \in 1..Len(polls) : HandleProgressOk(i))
    /\ WF_vars(\E i \in 1..Len(polls), r \in Payloads : HandleResultsOk(i, r))

LiveSpec == InitLive /\ [][NextLive]_vars /\ Fairness

\* ------------------------------------------- the recomputation on its own

\* Number of leading stages whose prior status is arbitrary.
MaxVaried == 3

StatusValues == {"pending", "processing", "completed"}

\* Stage sequences with the titles of steps and any statuses on the leading
\* MaxVaried stages.
StageSeqs ==
    { [i \in 1..N |->
          [steps[i] EXCEPT !.status = IF i <= MaxVaried THEN f[i] ELSE "pending"]] :
      f \in [1..MaxVaried -> StatusValues] }

InitRecompute ==
    /\ variant = "recompute"
    /\ sessionId = ""
    /\ PageInit
    /\ hPc = "input"
    /\ hStep \in 0..N
    /\ hPrevA \in StageSeqs
    /\ hPrevB \in StageSeqs
    /\ hOutA = hPrevA
    /\ hOutB = hPrevB
    /\ ResultsIdle
    /\ EntryIdle

\* setProcessedSteps(prev => ...) applied to both prior sequences.
ApplyOnce ==
    /\ variant = "recompute" /\ hPc = "input"
    /\ hPc' = "once"
    /\ hOutA' = Recompute(hPrevA, hStep)
    /\ hOutB' = Recompute(hPrevB, hStep)
    /\ UNCHANGED <<variant, eVars, pagePc, route, routeState, pollVars, timerVars,
                   rVars, hStep, hPrevA, hPrevB>>

\* The same status response applied a second time.
ApplyTwice ==
    /\ variant = "recompute" /\ hPc = "once"
    /\ hPc' = "twice"
    /\ hOutA' = Recompute(hOutA, hStep)
    /\ hOutB' = Recompute(hOutB, hStep)
    /\ UNCHANGED <<variant, eVars, pagePc, route, routeState, pollVars, timerVars,
                   rVars, hStep, hPrevA, hPrevB>>

NextRecompute == ApplyOnce \/ ApplyTwice

SpecRecompute == InitRecompute /\ [][NextRecompute]_vars

\* --------------------------------------------------------- the results page
\* src/src/pages/ResultsPage.tsx.  The page is one render function of
\* location.state.  An object is a record; a field that is undefined is a
\* field the record does not have.  Amounts are integers.  debt_to_income is
\* a fraction in units of 1/DtiScale.  A number printed by toFixed(1) is the
\* integer number of tenths it shows; floating-point error of the
\* multiplications is not modelled.

Has(obj, f) == f \in DOMAIN obj

\* A destructuring default: const { f = dflt } = obj.
Field(obj, f, dflt) == IF Has(obj, f) THEN obj[f] ELSE dflt

\* obj without its field f.
Without(obj, f) == [g \in DOMAIN obj \ {f} |-> obj[g]]

Abs(x) == IF x < 0 THEN -x ELSE x

Sign(x) == IF x < 0 THEN -1 ELSE 1

Min(a, b) == IF a < b THEN a ELSE b

\* Resolution of debt_to_income: 0.1449 is 1449.
DtiScale == 100 * 100

\* (num / den).toFixed(1), in tenths: the nearest tenth, a tie going away
\* from zero.
ToFixed1(num, den) ==
    Sign(num) * Sign(den) * ((2 * 10 * Abs(num) + Abs(den)) \div (2 * Abs(den)))

\* Math.round(num / den) for den > 0: the nearest integer, a tie going up.
MathRound(num, den) == (2 * num + den) \div (2 * den)

\* The thresholds of getDtiRisk, in percent.
DtiLowMax == 28
DtiModerateMax == 36

\* Mutant of getDtiRisk: the comparisons are strict.
getDtiRiskStrict(ratio) ==
    IF ratio < DtiLowMax * 10 THEN "Low risk"
    ELSE IF ratio < DtiModerateMax * 10 THEN "Moderate risk"
    ELSE "High risk"

\* getDtiRisk(ratio), ratio in tenths of a percent.
getDtiRisk(ratio) ==
    IF ratio <= DtiLowMax * 10 THEN "Low risk"
    ELSE IF ratio <= DtiModerateMax * 10 THEN "Moderate risk"
    ELSE "High risk"

\* The thresholds of getLoanVerdict.
ApprovedMin == 80
ReviewMin == 60

\* Mutant of getLoanVerdict: the comparisons are strict.
getLoanVerdictStrict(score) ==
    IF score > ApprovedMin THEN "Likely Approved"
    ELSE IF score > ReviewMin THEN "Requires Review"
    ELSE "High Risk"

\* getLoanVerdict(score)
getLoanVerdict(score) ==
    IF score >= ApprovedMin THEN "Likely Approved"
    ELSE IF score >= ReviewMin THEN "Requires Review"
    ELSE "High Risk"

\* total_deposits + total_withdrawals || 1
NetFlowDenominator(deposits, withdrawals) ==
    IF deposits + withdrawals # 0 THEN deposits + withdrawals ELSE 1

\* Mutant of NetFlowDisplay: the no-data test is lost.
NetFlowDisplayAlwaysPercent(net, deposits, withdrawals) ==
    [kind |-> "percent",
     tenths |-> ToFixed1(net * 100, NetFlowDenominator(deposits, withdrawals))]

\* net_cash_flow === 0 ? '--' : `${((net / (dep + wd || 1)) * 100).toFixed(1)}%...`
NetFlowDisplay(net, deposits, withdrawals) ==
    IF net = 0 THEN [kind |-> "no-data", tenths |-> 0]
    ELSE [kind |-> "percent",
          tenths |-> ToFixed1(net * 100, NetFlowDenominator(deposits, withdrawals))]

\* The window of entries.slice(-6).
ChartWindow == 6

\* Mutant of LastEntries: slice(0, 6), the first entries.
FirstEntries(entries) == SubSeq(entries, 1, Min(Len(entries), ChartWindow))

\* entries.slice(-6)
LastEntries(entries) ==
    SubSeq(entries, Len(entries) - Min(Len(entries), ChartWindow) + 1, Len(entries))

\* last6.map(([month, f]) => ({month, deposits: f.deposits, withdrawals: ...}))
MonthlyData(last6) ==
    [j \in 1..Len(last6) |->
        [month |-> last6[j][1],
         deposits |-> last6[j][2].deposits,
         withdrawals |-> last6[j][2].withdrawals]]

\* Mutant of BalanceData: a negative balance is shown as zero.
BalanceDataClamped(last6) ==
    [j \in 1..Len(last6) |->
        [month |-> last6[j][1],
         balance |-> IF last6[j][2].end_balance < 0 THEN 0
                     ELSE last6[j][2].end_balance]]

\* last6.map(([month, f]) => ({month, balance: f.end_balance}))
BalanceData(last6) ==
    [j \in 1..Len(last6) |->
        [month |-> last6[j][1], balance |-> last6[j][2].end_balance]]

\* Mutant of SpendingData: the last category takes what the others leave of
\* total_withdrawals, so that the amounts add up.
SpendingDataRemainder(pct, total_withdrawals) ==
    LET share(j) == MathRound(pct[j][2] * total_withdrawals, 100)
        RECURSIVE sumTo(_)
        sumTo(k) == IF k = 0 THEN 0 ELSE share(k) + sumTo(k - 1)
    IN  [j \in 1..Len(pct) |->
            [category |-> pct[j][1],
             value |-> pct[j][2],
             amount |-> IF j = Len(pct) /\ j > 1
                        THEN total_withdrawals - sumTo(j - 1)
                        ELSE share(j)]]

\* Object.entries(pct).map(([category, value]) => ({category, value, amount}))
SpendingData(pct, total_withdrawals) ==
    [j \in 1..Len(pct) |->
        [category |-> pct[j][1],
         value |-> pct[j][2],
         amount |-> MathRound(pct[j][2] * total_withdrawals, 100)]]

\* JSON.stringify of one value of a transaction: a string is quoted, a number
\* is written in decimal.
JsonValue(v) ==
    IF Has(v, "str") THEN "\"" \o v.str \o "\"" ELSE ToString(v.num)

\* JSON.stringify(transaction, null, 2) for an object given as the sequence of
\* its <<key, value>> pairs in insertion order.
RECURSIVE JsonMembers(_, _)
JsonMembers(t, k) ==
    IF k > Len(t) THEN ""
    ELSE "\n  \"" \o t[k][1] \o "\": " \o JsonValue(t[k][2])
            \o (IF k < Len(t) THEN "," ELSE "\n")
            \o JsonMembers(t, k + 1)

JsonStringify(t) == "{" \o JsonMembers(t, 1) \o "}"

\* Mutant of IssueRows: the newest issue is listed first.
IssueRowsNewestFirst(data_issues) ==
    [j \in 1..Len(data_issues) |->
        [idx |-> j - 1,
         reason |-> data_issues[Len(data_issues) + 1 - j].reason,
         transaction |->
             JsonStringify(data_issues[Len(data_issues) + 1 - j].transaction)]]

\* data_issues.map((issue, idx) => <TableRow key={idx}> reason, transaction)
IssueRows(data_issues) ==
    [j \in 1..Len(data_issues) |->
        [idx |-> j - 1,
         reason |-> data_issues[j].reason,
         transaction |-> JsonStringify(data_issues[j].transaction)]]

\* data_issues.length > 0 ? <Table> : 'No flagged statements found'
IssuesPanel(data_issues) ==
    IF Len(data_issues) > 0 THEN "table" ELSE "No flagged statements found"

\* const finalResult = location.state || {}
ResultOf(state) == IF state = NullState THEN << >> ELSE state

\* Mutant of NoSession: only the absence of the whole result is tested.
NoSessionGuardLost(result) == result = NullState

\* if (!finalResult || !finalResult.session_id)
NoSession(result) == Field(result, "session_id", "") = ""

\* The default of the analysis_summary destructuring.
DefaultSummary ==
    [total_deposits |-> 0, total_withdrawals |-> 0, net_cash_flow |-> 0,
     debt_to_income |-> 0]

\* Everything the render derives, for a result that has a session id and an
\* analysis_summary.
ViewOf(result) ==
    LET loan_score       == Field(result, "loan_score", 0)
        analysis_summary == Field(result, "analysis_summary", DefaultSummary)
        data_issues      == Field(result, "data_issues", << >>)
        total_deposits    == Field(analysis_summary, "total_deposits", 0)
        total_withdrawals == Field(analysis_summary, "total_withdrawals", 0)
        net_cash_flow     == Field(analysis_summary, "net_cash_flow", 0)
        debt_to_income    == Field(analysis_summary, "debt_to_income", 0)
        dtiRatio == ToFixed1(debt_to_income * 100, DtiScale)
        flows    == Field(result.analysis_summary, "monthly_flows", << >>)
        last6    == LastEntries(flows)
        pct      == Field(result, "spending_by_category", << >>)
    IN  [dtiRatio |-> dtiRatio,
         dtiRisk |-> getDtiRisk(dtiRatio),
         loan_score |-> loan_score,
         loanVerdict |-> getLoanVerdict(loan_score),
         netFlow |-> NetFlowDisplay(net_cash_flow, total_deposits,
                                    total_withdrawals),
         monthlyData |-> MonthlyData(last6),
         balanceData |-> BalanceData(last6),
         spendingData |-> SpendingData(pct, total_withdrawals),
         issueRows |-> IssueRows(data_issues),
         issuesPanel |-> IssuesPanel(data_issues)]

\* One render of ResultsPage.
ResultsRender ==
    /\ variant = "results" /\ rPc = "idle"
    /\ LET result == ResultOf(rState) IN
       IF NoSession(result)
       THEN \* navigate('/'); return null;
            /\ rPc' = "redirected"
            /\ route' = "/"
            /\ UNCHANGED rView
       ELSE IF ~Has(result, "analysis_summary")
       THEN \* finalResult.analysis_summary.monthly_flows throws a TypeError
            /\ rPc' = "crashed"
            /\ UNCHANGED <<route, rView>>
       ELSE /\ rPc' = "rendered"
            /\ rView' = ViewOf(result)
            /\ UNCHANGED route
    /\ UNCHANGED <<variant, eVars, pagePc, routeState, pollVars, timerVars, hVars,
                   rState>>

\* The header button of the results page: navigate('/').
ResultsClickHome ==
    /\ variant = "results" /\ rPc = "rendered"
    /\ rPc' = "left"
    /\ route' = "/"
    /\ UNCHANGED <<variant, eVars, pagePc, routeState, pollVars, timerVars, hVars,
                   rState, rView>>

NextResults == ResultsRender \/ ResultsClickHome

\* ---- the results the page is rendered with

\* Largest debt_to_income, in units of 1/DtiScale (0.37).
MaxDti == 3700

\* Largest loan_score.
MaxScore == 100

\* Largest number of recorded months.
MaxMonths == 8

Months == << "Jan", "Feb", "Mar", "Apr", "May", "Jun",
             "Jul", "Aug", "Sep", "Oct", "Nov", "Dec" >>

MoneyValues == {-500, 0, 300, 500}

BalanceValues == {-250, 300}

BaseSummary ==
    [total_deposits |-> 5000, total_withdrawals |-> 1000,
     net_cash_flow |-> 4000, debt_to_income |-> 1449,
     monthly_flows |-> << >>]

BaseResult ==
    [session_id |-> "s1", loan_amount_requested |-> 10000, loan_score |-> 82,
     analysis_summary |-> BaseSummary, summary_paragraph |-> "summary",
     spending_by_category |-> << >>, data_issues |-> << >>]

WithSummary(summary) == [BaseResult EXCEPT !.analysis_summary = summary]

\* m recorded months in chronological order with the end balances bal.
FlowsOf(m, bal) ==
    [i \in 1..m |->
        << Months[i],
           [deposits |-> 1000 + 10 * i, withdrawals |-> 900 + i,
            end_balance |-> bal[i], debt_to_income |-> 0] >>]

DtiInputs ==
    { WithSummary([BaseSummary EXCEPT !.debt_to_income = d]) : d \in 0..MaxDti }

ScoreInputs ==
    { [BaseResult EXCEPT !.loan_score = sc] : sc \in 0..MaxScore }
        \cup { Without(BaseResult, "loan_score") }

NetFlowInputs ==
    { WithSummary([BaseSummary EXCEPT !.net_cash_flow = n,
                                      !.total_deposits = d,
                                      !.total_withdrawals = w]) :
        n \in MoneyValues, d \in MoneyValues, w \in MoneyValues }

MonthlyInputs ==
    UNION { { WithSummary([BaseSummary EXCEPT !.monthly_flows = FlowsOf(m, bal)]) :
                bal \in [1..m -> BalanceValues] } : m \in 0..MaxMonths }
        \cup { WithSummary(Without(BaseSummary, "monthly_flows")) }

\* Largest number of flagged issues.
MaxIssues == 2

\* Flagged issues: a reason and the raw transaction as <<key, value>> pairs.
IssueValues ==
    << [reason |-> "duplicate",
        transaction |-> << <<"description", [str |-> "RENT"]>>,
                           <<"amount", [num |-> -500]>> >>],
       [reason |-> "duplicate",
        transaction |-> << <<"description", [str |-> "RENT"]>>,
                           <<"amount", [num |-> 500]>> >>],
       [reason |-> "missing balance",
        transaction |-> << >>] >>

IssueInputs ==
    UNION { { [BaseResult EXCEPT
                  !.data_issues = [j \in 1..n |-> IssueValues[pick[j]]]] :
                pick \in [1..n -> 1..Len(IssueValues)] } : n \in 0..MaxIssues }

OtherInputs ==
    { NullState,
      Without(BaseResult, "session_id"),
      [BaseResult EXCEPT !.session_id = ""],
      Without(BaseResult, "analysis_summary"),
      [BaseResult EXCEPT
          !.spending_by_category = << <<"A", 50>>, <<"B", 50>> >>,
          !.data_issues = << IssueValues[1] >>] }

\* Largest number of spending categories.
MaxCategories == 2

CategoryNames == << "A", "B", "C", "D" >>

CategoryPercents == {0, 33, 50}

WithdrawalValues == {-1001, 0, 1000, 1001, 1005}

\* spending_by_category with k categories, in insertion order.
CategoriesOf(k, pc) == [i \in 1..k |-> << CategoryNames[i], pc[i] >>]

CategoryInputs ==
    UNION { { [WithSummary([BaseSummary EXCEPT !.total_withdrawals = w])
                 EXCEPT !.spending_by_category = CategoriesOf(k, pc)] :
                pc \in [1..k -> CategoryPercents], w \in WithdrawalValues } :
            k \in 0..MaxCategories }
        \cup { Without(BaseResult, "spending_by_category") }

\* The fields of a result, and of its analysis summary, that may be absent.
OptionalFields ==
    {"loan_score", "analysis_summary", "spending_by_category", "data_issues"}

OptionalSummaryFields ==
    {"total_deposits", "total_withdrawals", "net_cash_flow", "debt_to_income",
     "monthly_flows"}

\* obj without the fields of gone.
WithoutAll(obj, gone) == [g \in DOMAIN obj \ gone |-> obj[g]]

\* Results that carry a session id and lack a subset of the other fields.
GapInputs ==
    { WithoutAll(BaseResult, gone) : gone \in SUBSET OptionalFields }
        \cup { WithSummary(WithoutAll(BaseSummary, gone)) :
                    gone \in SUBSET OptionalSummaryFields }

InitResults ==
    /\ variant = "results"
    /\ sessionId = ""
    /\ ProcessingIdle
    /\ route = "/results"
    /\ HarnessIdle
    /\ rState \in DtiInputs \cup ScoreInputs \cup NetFlowInputs
                    \cup MonthlyInputs \cup CategoryInputs \cup GapInputs
                    \cup IssueInputs
                    \cup OtherInputs
    /\ rPc = "idle"
    /\ rView = NoView
    /\ EntryIdle

SpecResults == InitResults /\ [][NextResults]_vars

\* ------------------------------------------------- entry page, upload area

\* Largest number of handleStartAnalysis() invocations in flight together.
MaxSubmits == 2

\* Largest number of files in one drop or one choice.
MaxDropped == 2

PdfType == "application/pdf"

\* File objects: a name and the MIME type the browser reports.
Files ==
    { [name |-> "a.pdf", type |-> PdfType],
      [name |-> "b.pdf", type |-> PdfType],
      [name |-> "c.png", type |-> "image/png"] }

\* e.dataTransfer.files / e.target.files
FileLists == UNION { [1..n -> Files] : n \in 0..MaxDropped }

Digits == {"0", "1", "2", "3", "4", "5", "6", "7", "8", "9"}

\* Values of the loan amount input after an edit, as character sequences.
LoanTexts ==
    { << >>, <<"5">>, <<"0", ".", "5">>, <<"0">>, <<".">>, <<"-", "5">>,
      <<"5", "e", "3">>,
      <<"1", ".", "2", ".", "3">> }

\* /^\d*\.?\d*$/.test(value)
MatchesAmount(value) ==
    \E k \in 0..Len(value) :
        /\ \A j \in 1..k : value[j] \in Digits
        /\ \/ k = Len(value)
           \/ /\ value[k + 1] = "."
              /\ \A j \in (k + 2)..Len(value) : value[j] \in Digits

\* parseFloat(loanAmount) > 0, for a value made of digits and at most one
\* point: some digit is not zero ('.' alone parses to NaN).
ParseFloatPositive(value) ==
    \E j \in 1..Len(value) : value[j] \in Digits \ {"0"}

\* const isFormValid = selectedFile && loanAmount && parseFloat(loanAmount) > 0
isFormValid ==
    /\ selectedFile # NoFile
    /\ loanAmount # << >>
    /\ ParseFloatPositive(loanAmount)

SessionIds == {"s1", "s2"}

\* What a submission can be resumed with.
Responses ==
    { [kind |-> "ok", session_id |-> sid] : sid \in SessionIds }
        \cup { [kind |-> "not-ok"], [kind |-> "error"] }

\* The entry page is on the screen.
EntryShown == variant = "entry" /\ route = "/"

\* handleLoanAmountChange
LoanAmountChange(value) ==
    /\ EntryShown
    /\ loanAmount' = IF value = << >> \/ MatchesAmount(value)
                     THEN value ELSE loanAmount
    /\ lastEvent' = [kind |-> "other"]
    /\ UNCHANGED <<variant, pagePc, route, routeState, pollVars, timerVars,
                   hVars, rVars, selectedFile, isDragOver, lastResponse,
                   submits, navState>>

\* handleFileSelect, reached through onFileSelect
handleFileSelect(file) == selectedFile' = file

\* handleDragOver
DragOver ==
    /\ EntryShown
    /\ isDragOver' = TRUE
    /\ lastEvent' = [kind |-> "dragover"]
    /\ UNCHANGED <<variant, pagePc, route, routeState, pollVars, timerVars,
                   hVars, rVars, selectedFile, loanAmount, lastResponse,
                   submits, navState>>

\* handleDragLeave
DragLeave ==
    /\ EntryShown
    /\ isDragOver' = FALSE
    /\ lastEvent' = [kind |-> "dragleave"]
    /\ UNCHANGED <<variant, pagePc, route, routeState, pollVars, timerVars,
                   hVars, rVars, selectedFile, loanAmount, lastResponse,
                   submits, navState>>

\* Mutant of AcceptFirst: the type of the first file is not tested.
AcceptFirstAnyType(files) ==
    IF Len(files) > 0
    THEN handleFileSelect(files[1])
    ELSE UNCHANGED selectedFile

\* files[0] of a drop or a choice, NoFile for an empty list.
FirstOf(files) == IF Len(files) > 0 THEN files[1] ELSE NoFile

\* if (files.length > 0) { const file = files[0];
\*   if (file.type === 'application/pdf') onFileSelect(file); else alert(...) }
AcceptFirst(files) ==
    IF Len(files) > 0 /\ files[1].type = PdfType
    THEN handleFileSelect(files[1])
    ELSE UNCHANGED selectedFile

\* handleDrop
Drop(files) ==
    /\ EntryShown
    /\ isDragOver' = FALSE
    /\ AcceptFirst(files)
    /\ lastEvent' = [kind |-> "drop", first |-> FirstOf(files)]
    /\ UNCHANGED <<variant, pagePc, route, routeState, pollVars, timerVars,
                   hVars, rVars, loanAmount, lastResponse, submits, navState>>

\* handleFileChange
FileChange(files) ==
    /\ EntryShown
    /\ AcceptFirst(files)
    /\ lastEvent' = [kind |-> "change", first |-> FirstOf(files)]
    /\ UNCHANGED <<variant, pagePc, route, routeState, pollVars, timerVars,
                   hVars, rVars, loanAmount, isDragOver, lastResponse, submits,
                   navState>>

\* A click on the button (disabled={!isFormValid}): handleStartAnalysis up to
\* its await.
StartAnalysis ==
    /\ EntryShown
    /\ isFormValid
    /\ Len(submits) < MaxSubmits
    /\ IF selectedFile = NoFile \/ loanAmount = << >>
       THEN UNCHANGED submits
       ELSE submits' = Append(submits, [file |-> selectedFile,
                                        loan |-> loanAmount])
    /\ lastEvent' = [kind |-> "other"]
    /\ UNCHANGED <<variant, pagePc, route, routeState, pollVars, timerVars,
                   hVars, rVars, selectedFile, loanAmount, isDragOver,
                   lastResponse, navState>>

\* Mutant of ResumeNotOk: the early return is missing and the handler goes on
\* to navigate.
ResumeNotOkFallsThrough(i) ==
    /\ route' = "/processing"
    /\ navState' = [session_id |-> "", filename |-> submits[i].file.name,
                    loanAmount |-> submits[i].loan]

\* if (!response.ok) { console.error(...); return; }   and the catch block
ResumeNotOk(i) == UNCHANGED <<route, navState>>

\* handleStartAnalysis after its await, resumed with response resp.
ResumeAnalysis(i, resp) ==
    /\ variant = "entry"
    /\ submits' = RemoveAt(submits, i)
    /\ lastResponse' = resp
    /\ IF resp.kind = "ok"
       THEN /\ route' = "/processing"
            /\ navState' = [session_id |-> resp.session_id,
                            filename |-> submits[i].file.name,
                            loanAmount |-> submits[i].loan]
       ELSE ResumeNotOk(i)
    /\ lastEvent' = [kind |-> "other"]
    /\ UNCHANGED <<variant, pagePc, routeState, pollVars, timerVars, hVars,
                   rVars, selectedFile, loanAmount, isDragOver>>

NextEntry ==
    \/ \E value \in LoanTexts : LoanAmountChange(value)
    \/ DragOver
    \/ DragLeave
    \/ \E files \in FileLists : Drop(files)
    \/ \E files \in FileLists : FileChange(files)
    \/ StartAnalysis
    \/ \E i \in 1..Len(submits) : \E resp \in Responses : ResumeAnalysis(i, resp)

InitEntry ==
    /\ variant = "entry"
    /\ sessionId = ""
    /\ ProcessingIdle
    /\ route = "/"
    /\ HarnessIdle
    /\ ResultsIdle
    /\ EntryIdle

SpecEntry == InitEntry /\ [][NextEntry]_vars

\* ------------------------------------------------------------- properties

CountStatus(ps, st) == Cardinality({i \in 1..Len(ps) : ps[i].status = st})

Statuses(ps) == [i \in 1..Len(ps) |-> ps[i].status]

\* Exactly c stages 'completed' (those of 0-based index < c), exactly one
\* 'processing' iff c < N, the rest 'pending'.
StagesMatch(ps, c) ==
    /\ CountStatus(ps, "completed") = c
    /\ \A i \in 1..Len(ps) : (i - 1 < c) => ps[i].status = "completed"
    /\ CountStatus(ps, "processing") = (IF c < N THEN 1 ELSE 0)
    /\ CountStatus(ps, "pending") = Len(ps) - c - (IF c < N THEN 1 ELSE 0)

\* A status query is sent in this step.
QuerySent == Len(polls') = Len(polls) + 1

\* C1: for one run of the polling tracker the result fetch is issued exactly
\* once after completion is observed, for every interleaving of ticks and
\* responses.  (Stated as claimed; the code violates it.)
C1_ResultFetchedExactlyOnce ==
    (variant = "polling" /\ completionSeen) => resultFetches = 1

\* C2: once the effect cleanup has run, no step changes currentStep, the stage
\* sequence or finalResult, none navigates, and none starts a result fetch,
\* whatever in-flight responses resolve later.
C2_NothingAfterTeardown ==
    [][(variant = "polling" /\ pagePc = "unmounted") =>
          /\ currentStep' = currentStep
          /\ processedSteps' = processedSteps
          /\ finalResult' = finalResult
          /\ route' = route
          /\ routeState' = routeState
          /\ resultFetches' = resultFetches]_vars

\* C2 witness: the page is off the screen and a response that was in flight at
\* teardown has been resumed and discarded.
C2_Witness ==
    /\ variant = "polling" /\ pagePc = "unmounted"
    /\ lateResponse
    /\ polls = << >>

\* C3: at every instant at most one status query is outstanding.  (Stated as
\* claimed; the code violates it.)
C3_OneOutstandingQuery ==
    variant = "polling" =>
        Cardinality({i \in 1..Len(polls) : polls[i].pc = "progress"}) <= 1

\* C4: whenever a status response is applied, the stage sequence it produces
\* has exactly current_step stages 'completed' (the leading ones), one
\* 'processing' iff current_step < N, and the rest 'pending'.
C4_StagesOfResponse ==
    [][(/\ variant = "polling"
        /\ (currentStep' # currentStep \/ processedSteps' # processedSteps)) =>
          StagesMatch(processedSteps', currentStep')]_vars

\* C4 witness: the response current_step = N has been applied: every stage is
\* 'completed' and none is 'processing'.
C4_Witness ==
    /\ variant = "polling"
    /\ currentStep = N
    /\ CountStatus(processedSteps, "completed") = N

\* C5: in every reachable state of the polling page at most one stage is
\* 'processing', every stage of index < currentStep is 'completed' and every
\* stage of index > currentStep is 'pending'.
C5_StageInvariant ==
    variant = "polling" =>
        /\ CountStatus(processedSteps, "processing") <= 1
        /\ \A i \in 1..Len(processedSteps) :
              /\ (i - 1 < currentStep) => processedSteps[i].status = "completed"
              /\ (i - 1 > currentStep) => processedSteps[i].status = "pending"

\* C5 witness: between two responses, in the middle of the job, with a later
\* status query in flight.
C5_Witness ==
    /\ variant = "polling" /\ pagePc = "mounted"
    /\ currentStep = 3
    /\ processedSteps[4].status = "processing"
    /\ polls # << >>

\* C6: in the timer-driven page, for every displayed currentStep reached by
\* interval ticks, exactly currentStep stages are 'completed', exactly one is
\* 'processing' iff currentStep < N, and when isComplete holds every stage is
\* 'completed'.  (Stated as claimed; the code violates it.)
C6_TimerStages ==
    (variant = "timer" /\ tCurrentStep >= 1) =>
        /\ StagesMatch(tProcessedSteps, tCurrentStep)
        /\ tIsComplete => CountStatus(tProcessedSteps, "completed") = N

\* C7: the statuses produced by the recomputation depend on (index,
\* current_step) only: two different prior sequences give the same statuses,
\* and a second application with the same current_step changes nothing.
C7_RecomputeTotalIdempotent ==
    /\ [](hPc # "input" => Statuses(hOutA) = Statuses(hOutB))
    /\ [][(hPc = "once" /\ hPc' = "twice") =>
             (hOutA' = hOutA /\ hOutB' = hOutB)]_vars

\* C7 witness: the recomputation has been applied twice with current_step 1
\* to two prior sequences that differ, one of them with a 'completed' stage
\* beyond current_step.
C7_Witness ==
    /\ hPc = "twice"
    /\ hStep = 1
    /\ hPrevA[3].status = "completed"
    /\ hPrevB[3].status = "processing"
    /\ hOutA[3].status = "pending"

\* C8: a result fetch is never sent before a status response with
\* current_step >= N has been applied in the run.
C8_FetchOnlyAfterCompletion ==
    variant = "polling" =>
        /\ resultFetches > 0 => completionSeen
        /\ \A i \in 1..Len(polls) : polls[i].pc = "results" => completionSeen

\* C8 witness: completion has been observed and the result fetch is in flight.
C8_Witness ==
    /\ variant = "polling"
    /\ completionSeen
    /\ resultFetches = 1
    /\ \E i \in 1..Len(polls) : polls[i].pc = "results"

\* C9: started with a job id, never torn down, every request answered with
\* success and the backend reaching N: eventually the final result is stored
\* and the interval is stopped.
C9_EventuallyFinalResult ==
    (sessionId # "") ~> (finalResult # NULL /\ ~pollInterval)

\* C9 witness: the final result is stored, the interval is stopped and the
\* page is still on screen.
C9_Witness ==
    /\ pagePc = "mounted"
    /\ finalResult # NULL
    /\ ~pollInterval
    /\ polls = << >>

\* C10: after a completion observation, a status or result error, or a
\* teardown has been processed, no status query is sent; queries are sent only
\* by the start of the effect and by interval ticks of a run that is polling.
C10_NoQueryAfterStop ==
    [][(variant = "polling" /\ QuerySent) =>
          /\ ~stopSeen
          /\ sessionId # ""
          /\ pagePc \in {"rendered", "mounted"}
          /\ pagePc = "mounted" => pollInterval]_vars

\* C10 witness: a request failed while the page was on screen (the run is
\* stopped without completion and without teardown) and the interval is off.
C10_Witness ==
    /\ variant = "polling" /\ pagePc = "mounted"
    /\ stopSeen /\ ~completionSeen
    /\ ~pollInterval

\* What the polling page shows and hands over: the step counter, the stages,
\* the stored result and the route.
UiView == <<currentStep, processedSteps, finalResult, route, routeState>>

\* C11: when a status query or the result fetch fails while the page is
\* mounted, what the user sees afterwards differs from what a run that is
\* still polling shows.  (Stated as claimed; the code violates it.)
C11_FailureVisible ==
    [][(variant = "polling" /\ ~failureSeen /\ failureSeen') =>
          UiView' # UiView]_vars

\* C12: started without a job id, the page sends no status query and no
\* result fetch, starts no timer, and navigates to '/'.
C12_NoSessionNoTracking ==
    (variant = "polling" /\ sessionId = "") =>
        /\ polls = << >>
        /\ resultFetches = 0
        /\ ~pollInterval
        /\ pagePc \in {"rendered", "redirected"}
        /\ pagePc = "redirected" => route = "/"

\* C12 witness: the effect has run without a job id and has redirected.
C12_Witness ==
    /\ variant = "polling" /\ sessionId = ""
    /\ pagePc = "redirected"
    /\ route = "/"

\* C13: the start of the effect sends the first status query at once, with
\* the interval scheduled, and every later step that sends a status query
\* (an interval tick) sends exactly one.
C13_FirstPollImmediate ==
    [][variant = "polling" =>
          /\ (pagePc = "rendered" /\ pagePc' = "mounted") =>
                /\ polls' = << [pc |-> "progress", resp |-> NoResp] >>
                /\ pollInterval'
          /\ Len(polls') > Len(polls) =>
                polls' = Append(polls, [pc |-> "progress", resp |-> NoResp])]_vars

\* C13 witness: the query of the start and the query of one tick are both in
\* flight and nothing has been answered yet.
C13_Witness ==
    /\ variant = "polling" /\ pagePc = "mounted"
    /\ polls = << [pc |-> "progress", resp |-> NoResp],
                  [pc |-> "progress", resp |-> NoResp] >>
    /\ currentStep = 0 /\ processedSteps = steps

\* C14: within one run finalResult is written at most once: once it is not
\* null no later step changes it.  (Stated as claimed; the code violates it.)
C14_FinalResultWrittenOnce ==
    [][(variant = "polling" /\ finalResult # NULL) =>
          finalResult' = finalResult]_vars

\* C15: through every status response and every timer tick the stage
\* sequence keeps its length N and every stage its title and description.
C15_StagesKeepShape ==
    /\ variant = "polling" =>
          /\ Len(processedSteps) = N
          /\ \A i \in 1..N :
                /\ processedSteps[i].title = steps[i].title
                /\ processedSteps[i].description = steps[i].description
    /\ variant = "timer" =>
          /\ Len(tProcessedSteps) = N
          /\ \A i \in 1..N :
                /\ tProcessedSteps[i].title = stepsTimer[i].title
                /\ tProcessedSteps[i].description = stepsTimer[i].description

\* C15 witness: a status response of the middle of the job has been applied.
C15_Witness ==
    /\ variant = "polling"
    /\ currentStep = 5
    /\ processedSteps[5].status = "completed"
    /\ processedSteps[6].status = "processing"

\* The results page has computed its values (and may have been left since).
Rendered == variant = "results" /\ rPc \in {"rendered", "left"}

\* The analysis summary and the monthly entries of the result rendered.
InSummary == Field(rState, "analysis_summary", << >>)
InFlows == Field(InSummary, "monthly_flows", << >>)

\* C16: the DTI label is decided from the percentage rounded to one decimal:
\* up to 28.0 'Low risk', above 28.0 up to 36.0 'Moderate risk', above 36.0
\* 'High risk'; the rounded percentage is the tenth nearest to fraction x 100.
C16_DtiBuckets ==
    Rendered =>
        LET t == rView.dtiRatio
            raw == Field(InSummary, "debt_to_income", 0)
        IN  /\ 2 * Abs(t * DtiScale - 1000 * raw) <= DtiScale
            /\ t <= 280 => rView.dtiRisk = "Low risk"
            /\ (280 < t /\ t <= 360) => rView.dtiRisk = "Moderate risk"
            /\ t > 360 => rView.dtiRisk = "High risk"

\* C16 witness: the fraction 0.2804 is above 28 percent, is shown as 28.0 and
\* is 'Low risk'.
C16_Witness ==
    /\ Rendered
    /\ Field(InSummary, "debt_to_income", 0) = 2804
    /\ rView.dtiRatio = 280
    /\ rView.dtiRisk = "Low risk"

\* C17: the verdict of a loan score: 80 and above 'Likely Approved', 60 to 79
\* 'Requires Review', below 60 'High Risk'; no loan score counts as 0.
C17_LoanVerdict ==
    Rendered =>
        LET score == IF Has(rState, "loan_score") THEN rState.loan_score ELSE 0
        IN  /\ score >= 80 => rView.loanVerdict = "Likely Approved"
            /\ (60 <= score /\ score < 80) => rView.loanVerdict = "Requires Review"
            /\ score < 60 => rView.loanVerdict = "High Risk"

\* C17 witness: the score 80 is 'Likely Approved'.
C17_Witness ==
    /\ Rendered
    /\ Has(rState, "loan_score") /\ rState.loan_score = 80
    /\ rView.loanVerdict = "Likely Approved"

\* C18: with netCashFlow = 0 the net-flow display is the no-data marker; with
\* netCashFlow # 0 it is netCashFlow / D x 100 to one decimal, D being
\* totalDeposits + totalWithdrawals when that is not zero and 1 otherwise.
C18_NetFlowDisplay ==
    Rendered =>
        LET net == Field(InSummary, "net_cash_flow", 0)
            sum == Field(InSummary, "total_deposits", 0)
                     + Field(InSummary, "total_withdrawals", 0)
            D   == IF sum # 0 THEN sum ELSE 1
        IN  /\ net = 0 => rView.netFlow.kind = "no-data"
            /\ net # 0 =>
                  /\ rView.netFlow.kind = "percent"
                  /\ 2 * Abs(rView.netFlow.tenths * D - 1000 * net) <= Abs(D)

\* C18 witness: a net cash flow with deposits and withdrawals both zero is
\* shown as a percentage of 1.
C18_Witness ==
    /\ Rendered
    /\ Field(InSummary, "net_cash_flow", 0) = 300
    /\ Field(InSummary, "total_deposits", 1) = 0
    /\ Field(InSummary, "total_withdrawals", 1) = 0
    /\ rView.netFlow = [kind |-> "percent", tenths |-> 300000]

C20_SeriesParallel ==
    Rendered =>
        /\ Len(rView.monthlyData) = Len(rView.balanceData)
        /\ \A j \in 1..Len(rView.monthlyData) :
              /\ rView.monthlyData[j].month = rView.balanceData[j].month
              /\ \E i \in 1..Len(InFlows) :
                    InFlows[i][1] = rView.monthlyData[j].month
              /\ \A i \in 1..Len(InFlows) :
                    InFlows[i][1] = rView.monthlyData[j].month =>
                       /\ rView.monthlyData[j].deposits = InFlows[i][2].deposits
                       /\ rView.monthlyData[j].withdrawals = InFlows[i][2].withdrawals
                       /\ rView.balanceData[j].balance = InFlows[i][2].end_balance

\* C20 witness: a month of the window ends with a negative balance and the
\* balance series shows it.
C20_Witness ==
    /\ Rendered
    /\ Len(rView.balanceData) = 6
    /\ rView.balanceData[2].balance < 0
    /\ rView.balanceData[3].balance > 0

\* C21: the category list has one element per (category, percent) pair of
\* the mapping, in the mapping's order, with the category and the percent
\* copied and amount the integer nearest to percent / 100 x total withdrawals;
\* each element depends on its own percent only.  An empty or missing mapping
\* gives the empty list.
C21_CategoryExpansion ==
    Rendered =>
        LET pct == Field(rState, "spending_by_category", << >>)
            tw  == Field(InSummary, "total_withdrawals", 0)
            out == rView.spendingData
        IN  /\ Len(out) = Len(pct)
            /\ \A j \in 1..Len(pct) :
                  /\ out[j].category = pct[j][1]
                  /\ out[j].value = pct[j][2]
                  /\ 2 * Abs(100 * out[j].amount - pct[j][2] * tw) <= 100
            /\ \A j, k \in 1..Len(pct) :
                  pct[j][2] = pct[k][2] => out[j].amount = out[k].amount

\* C21 witness: {A: 33, B: 33} with total withdrawals 1005 is shown as
\* [{A, 33, 332}, {B, 33, 332}].
C21_Witness ==
    /\ Rendered
    /\ Has(rState, "spending_by_category")
    /\ rState.spending_by_category = << <<"A", 33>>, <<"B", 33>> >>
    /\ Field(InSummary, "total_withdrawals", 0) = 1005
    /\ rView.spendingData =
          << [category |-> "A", value |-> 33, amount |-> 332],
             [category |-> "B", value |-> 33, amount |-> 332] >>

\* C22: for every result that carries a session id, whatever subset of its
\* other fields is absent, the render raises no error and every value derived
\* from an absent field is its default (zero, empty list, no-data marker).
\* (Stated as claimed; the code violates it.)
C22_GapsAbsorbed ==
    (variant = "results" /\ rPc # "idle" /\ Field(rState, "session_id", "") # "")
        => /\ rPc \in {"rendered", "left"}
           /\ ~Has(rState, "loan_score") => rView.loan_score = 0
           /\ ~Has(InSummary, "debt_to_income") => rView.dtiRatio = 0
           /\ ~Has(InSummary, "net_cash_flow") => rView.netFlow.kind = "no-data"
           /\ ~Has(InSummary, "monthly_flows") =>
                 rView.monthlyData = << >> /\ rView.balanceData = << >>
           /\ ~Has(rState, "spending_by_category") => rView.spendingData = << >>
           /\ ~Has(rState, "data_issues") => rView.issueRows = << >>

\* C23: the flagged-issues rows are as many as the input issues, in the same
\* order, indexed 0..n-1, each with the reason of its issue and the text of
\* its raw transaction (two rows show the same text only for the same
\* transaction); an empty or missing list gives the 'no flagged statements'
\* panel and no error.
C23_IssuesPassthrough ==
    (variant = "results" /\ rPc # "idle" /\ Has(rState, "session_id")
        /\ rState.session_id # "" /\ Has(rState, "analysis_summary"))
    => /\ Rendered
       /\ LET inp  == Field(rState, "data_issues", << >>)
              rows == rView.issueRows
          IN  /\ Len(rows) = Len(inp)
              /\ \A j \in 1..Len(inp) :
                    /\ rows[j].idx = j - 1
                    /\ rows[j].reason = inp[j].reason
                    /\ rows[j].transaction = JsonStringify(inp[j].transaction)
              /\ \A j, k \in 1..Len(inp) :
                    (rows[j].transaction = rows[k].transaction)
                        <=> (inp[j].transaction = inp[k].transaction)
              /\ (Len(inp) = 0) <=>
                    (rView.issuesPanel = "No flagged statements found")

\* C23 witness: two issues with different reasons are shown in input order.
C23_Witness ==
    /\ Rendered
    /\ Has(rState, "data_issues")
    /\ rState.data_issues = << IssueValues[3], IssueValues[1] >>
    /\ rView.issuesPanel = "table"
    /\ rView.issueRows[1].reason = "missing balance"
    /\ rView.issueRows[1].transaction = "{}"
    /\ rView.issueRows[2].idx = 1
    /\ rView.issueRows[2].transaction =
          "{\n  \"description\": \"RENT\",\n  \"amount\": -500\n}"

\* C25: the step reported by the backend never decreases, and the displayed
\* currentStep and the number of 'completed' stages never decrease either,
\* for every interleaving of ticks and response arrivals.
\* (Stated as claimed; the code violates it.)
C25_StepNeverDecreases ==
    [][variant = "polling" =>
          /\ backendStep' >= backendStep
          /\ currentStep' >= currentStep
          /\ CountStatus(processedSteps', "completed")
                >= CountStatus(processedSteps, "completed")]_vars

\* C26: once the tracker has processed a status-query error or a result-fetch
\* error, no later step changes currentStep, the stage sequence or
\* finalResult, and none issues a result fetch.
\* (Stated as claimed; the code violates it.)
C26_FailureTerminal ==
    [][(variant = "polling" /\ failureSeen) =>
          /\ currentStep' = currentStep
          /\ processedSteps' = processedSteps
          /\ finalResult' = finalResult
          /\ resultFetches' = resultFetches]_vars

\* C27: whenever the 'View Financial Report' button of the polling page is
\* enabled, finalResult is non-null.
\* (Stated as claimed; the code violates it.)
C27_EnabledImpliesResult ==
    (variant = "polling" /\ pagePc = "mounted" /\ isComplete)
        => finalResult # NULL

\* C28: the polling page navigates to '/results' only in a click step taken
\* while finalResult is non-null, handing over exactly finalResult, which is a
\* payload of the result fetch; a step that processes a status or result
\* response (or sends a query) never navigates.
C28_NavigateOnlyOnClick ==
    [][variant = "polling" =>
          /\ (route' = "/results" /\ route # "/results") =>
                /\ pagePc = "mounted" /\ isComplete
                /\ finalResult \in Payloads
                /\ routeState' = finalResult
                /\ polls' = polls
                /\ finalResult' = finalResult
                /\ currentStep' = currentStep
          /\ (polls' # polls \/ finalResult' # finalResult
                \/ currentStep' # currentStep) =>
                route' = route /\ routeState' = routeState]_vars

\* C28 witness: the results page was opened with the fetched payload.
C28_Witness ==
    /\ variant = "polling"
    /\ route = "/results"
    /\ routeState \in Payloads
    /\ routeState = finalResult
    /\ resultFetches >= 1

\* C29: on the timer-driven page every interval callback raises currentStep
\* by exactly 1 while currentStep < N; currentStep never exceeds N; the
\* callback that finds currentStep = N clears the interval and changes no
\* state; after teardown no callback runs; so currentStep is the number of
\* callbacks run, capped at N.
C29_TimerCounts ==
    [][variant = "timer" =>
          /\ (tTicks' = tTicks + 1 /\ tCurrentStep < Len(stepsTimer)) =>
                tCurrentStep' = tCurrentStep + 1 /\ tInterval'
          /\ (tTicks' = tTicks + 1 /\ tCurrentStep >= Len(stepsTimer)) =>
                /\ tCurrentStep' = tCurrentStep
                /\ tProcessedSteps' = tProcessedSteps
                /\ ~tInterval'
          /\ tCurrentStep' <= Len(stepsTimer)
          /\ tCurrentStep' = Min(tTicks', Len(stepsTimer))
          /\ pagePc = "unmounted" =>
                /\ tTicks' = tTicks
                /\ tCurrentStep' = tCurrentStep
                /\ tProcessedSteps' = tProcessedSteps]_vars

\* C29 witness: N callbacks brought currentStep to N and one more cleared the
\* interval, the page still on the screen.
C29_Witness ==
    /\ variant = "timer" /\ pagePc = "mounted"
    /\ tTicks = Len(stepsTimer) + 1
    /\ tCurrentStep = Len(stepsTimer)
    /\ ~tInterval

C31_SubmitAndNavigate ==
    [][variant = "entry" =>
          /\ Len(submits') > Len(submits) =>
                /\ selectedFile # NoFile
                /\ loanAmount # << >>
                /\ submits' = Append(submits, [file |-> selectedFile,
                                               loan |-> loanAmount])
          /\ (route' = "/processing"
                /\ (route # "/processing" \/ navState' # navState)) =>
                /\ Len(submits') < Len(submits)
                /\ lastResponse'.kind = "ok"
                /\ navState'.session_id = lastResponse'.session_id
          /\ Len(submits') = Len(submits) =>
                route' = route /\ navState' = navState
          /\ (Len(submits') < Len(submits) /\ lastResponse'.kind # "ok") =>
                /\ route' = route
                /\ navState' = navState
                /\ selectedFile' = selectedFile
                /\ loanAmount' = loanAmount]_vars

\* C31 witness: a request for b.pdf was resumed with an ok response carrying
\* session id s2 and the page navigated with it.
C31_Witness ==
    /\ variant = "entry"
    /\ route = "/processing"
    /\ lastResponse = [kind |-> "ok", session_id |-> "s2"]
    /\ navState = [session_id |-> "s2", filename |-> "b.pdf",
                   loanAmount |-> <<"0", ".", "5">>]
    /\ submits = << >>

\* C32: the upload area hands a file to onFileSelect only when the first
\* dropped or chosen file has type 'application/pdf', and then the selected
\* file is that file; for any other first file, or none, the selected file is
\* unchanged; after every drop or drag-leave the drag-over flag is false.
C32_UploadArea ==
    [][variant = "entry" =>
          /\ lastEvent'.kind \in {"drop", "change"} =>
                LET first == lastEvent'.first IN
                IF first # NoFile /\ first.type = "application/pdf"
                THEN selectedFile' = first
                ELSE selectedFile' = selectedFile
          /\ lastEvent'.kind \notin {"drop", "change"} =>
                selectedFile' = selectedFile
          /\ lastEvent'.kind \in {"drop", "dragleave"} => ~isDragOver']_vars

\* C32 witness: with a.pdf selected and the drag-over flag raised, a drop
\* whose first file is an image left a.pdf selected and lowered the flag.
C32_Witness ==
    /\ variant = "entry"
    /\ lastEvent = [kind |-> "drop",
                    first |-> [name |-> "c.png", type |-> "image/png"]]
    /\ selectedFile = [name |-> "a.pdf", type |-> "application/pdf"]
    /\ ~isDragOver

====
